---- MODULE Spec2Model ----
(***************************************************************************)
(* A model of generatom/stocks: the IG REST client (ig.py: APIHandler) and *)
(* the backtest routine (analysis.py: backtest_trade).                     *)
(*                                                                         *)
(* Strings that the code transforms (URLs, cursors) are sequences of       *)
(* one-character strings.  A pandas table is a record [cols, rows]: cols   *)
(* is the set of column labels, rows a sequence of functions from a subset *)
(* of cols to values; a label of cols outside a row's domain is a missing  *)
(* (NaN / None) cell of that row.  A JSON object is a function from its    *)
(* keys.  In the bars of a prices response a JSON null and an absent key   *)
(* both give a missing cell, and are modelled as an absent key; the        *)
(* entries of positions and orders carry values only, a key is there or    *)
(* not.  Prices and levels are integers.                                   *)
(***************************************************************************)
EXTENDS Integers, Sequences, FiniteSets, TLC

VARIABLES
    debug_level,   \* self.debug_level (the verbosity)
    stdout,        \* what print() has written, as a sequence of tags
    lpc,           \* position of login(): "start", "loop", "done"
    statuses,      \* status codes of the login POSTs so far, in order
    access_token,  \* self._access_token ("unset" before login sets it)
    headers,       \* self._headers (NoHeaders before login sets it)
    site,          \* the pagination sequence the server holds
    gpc,           \* position of _get(): "idle", "loop", "returned", "raised"
    url,           \* local url of _get (<<>> is None)
    i,             \* local i of _get
    responses,     \* local responses of _get
    reqlog,        \* URLs of the GET requests issued by the current _get
    last,          \* the last response received by _get
    result,        \* what _get returned
    call,          \* which normalizer is applied: "none", "positions", ...
    pages,         \* the page list the normalizer got from _get (the table
                   \* df_prices for backtest_trade)
    arg,           \* the resolution argument of prices (the direction argument
                   \* of backtest_trade)
    request,       \* the request path built by prices (<<>> before)
    out            \* what the normalizer returned / how it ended

vars == <<debug_level, stdout, lpc, statuses, access_token, headers, site, gpc,
          url, i, responses, reqlog, last, result, call, pages, arg, request,
          out>>

transportVars == <<lpc, statuses, access_token, headers, site, gpc, url, i,
                   responses, reqlog, last, result>>
normalizerVars == <<call, pages, arg, request, out>>

(***************************************************************************)
(* Bounds of the model.                                                    *)
(***************************************************************************)
MaxAttempts == 3   \* the server answers non-200 to a login at most this often
MaxPages == 3      \* longest pagination sequence the server holds

Verbosities == 0 .. 2
None == <<>>

(***************************************************************************)
(* _set_url: api_url + urllib.parse.quote(endpoint).                       *)
(***************************************************************************)
api_url == <<"h">>

\* the characters urllib.parse.quote leaves alone (letters, digits, "_.-~"
\* and the default safe character "/"), over the alphabet of the model
SafeChars == {"/", "h", "p", "n", "s", "1", "2", "3", "4", "5", "F", "D"}

\* percent-encoding of one character
quote_char(c) ==
    IF c \in SafeChars THEN <<c>>
    ELSE IF c = "?" THEN <<"%", "3", "F">>
    ELSE IF c = "=" THEN <<"%", "3", "D">>
    ELSE <<"%", "2", "5">>

RECURSIVE quote(_)
quote(s) == IF s = <<>> THEN <<>> ELSE quote_char(Head(s)) \o quote(Tail(s))

set_url(endpoint) == api_url \o quote(endpoint)

Digit(k) == IF k = 1 THEN "1" ELSE IF k = 2 THEN "2" ELSE IF k = 3 THEN "3"
            ELSE IF k = 4 THEN "4" ELSE "5"

(***************************************************************************)
(* The server.  Page k of a pagination sequence is [id, meta, next]:       *)
(* meta = "next": metadata.paging.next is the cursor `next`;               *)
(* meta = "null": metadata.paging.next is null or absent;                  *)
(* meta = "none": the page has no metadata;                                *)
(* meta = "nopaging": metadata without a paging object (not a valid page). *)
(* The cursor to page k is a path ("/pk") or carries a query ("/p?n=k").   *)
(***************************************************************************)
PathCursor(k) == <<"/", "p", Digit(k)>>
QueryCursor(k) == <<"/", "p", "?", "n", "=", Digit(k)>>
Cursors(k) == {PathCursor(k), QueryCursor(k)}

Page(k, m, c) == [id |-> k, meta |-> m, next |-> c]
InnerPages(k) == {Page(k, "next", c) : c \in Cursors(k + 1)}
LastPages(k) == {Page(k, m, None) : m \in {"none", "null", "nopaging"}}

Sites ==
    UNION {{s \in [1 .. n -> UNION {InnerPages(k) \cup LastPages(k) : k \in 1 .. n}] :
              /\ \A k \in 1 .. n - 1 : s[k] \in InnerPages(k)
              /\ s[n] \in LastPages(n)} : n \in 1 .. MaxPages}

ValidSite(s) == s[Len(s)].meta \in {"none", "null"}

\* the endpoint a caller of _get starts from, and the address of page k: the
\* cursor handed out by page k-1, appended to the API's base URL
FirstEndpoint == PathCursor(1)
Addr(s, k) == IF k = 1 THEN api_url \o FirstEndpoint ELSE api_url \o s[k - 1].next

OK == 200
ErrorText(st) == IF st = 404 THEN "not found" ELSE "server error"
NoPage == Page(0, "none", None)

\* a response: status_code, text, whether .json() parses the body, and the
\* parsed body
Response(st, txt, js, d) == [status_code |-> st, text |-> txt, json |-> js, data |-> d]
NoResponse == Response(0, "", FALSE, NoPage)

\* what the server answers to a GET of u: the page at that address, 404 for an
\* address it does not know, or a failure
Serve(s, u) ==
    IF \E k \in 1 .. Len(s) : Addr(s, k) = u
    THEN Response(OK, "page", TRUE, s[CHOOSE k \in 1 .. Len(s) : Addr(s, k) = u])
    ELSE Response(404, ErrorText(404), TRUE, NoPage)

Answers(s, u) ==
    {Serve(s, u)} \cup {Response(500, ErrorText(500), js, NoPage) : js \in BOOLEAN}

(***************************************************************************)
(* login                                                                   *)
(***************************************************************************)
LoginStatuses == {200, 401, 500}
Tokens == {"tokA", "tokB"}
NoHeaders == [unset |-> TRUE]

\* the statuses the server may answer to the next login POST
LoginAnswers == IF Len(statuses) < MaxAttempts THEN LoginStatuses ELSE {200}

\* the first POST (ig.py 31-39)
LoginPost ==
    /\ lpc = "start"
    /\ \E st \in LoginAnswers : statuses' = Append(statuses, st)
    /\ lpc' = "loop"
    /\ UNCHANGED <<debug_level, stdout, access_token, headers, site, gpc, url, i,
                   responses, reqlog, last, result>>
    /\ UNCHANGED normalizerVars

\* a login that gives up after two attempts
login_retry_guard_bounded == statuses[Len(statuses)] # 200 /\ Len(statuses) < 2

\* one iteration of `while response.status_code != 200` (ig.py 41-45)
login_retry_guard == statuses[Len(statuses)] # 200

LoginRetry ==
    /\ lpc = "loop"
    /\ login_retry_guard
    /\ stdout' = IF debug_level # 0 THEN Append(stdout, "status") ELSE stdout
    /\ \E st \in LoginAnswers : statuses' = Append(statuses, st)
    /\ UNCHANGED <<debug_level, lpc, access_token, headers, site, gpc, url, i,
                   responses, reqlog, last, result>>
    /\ UNCHANGED normalizerVars

\* the loop is left: tokens and headers are set and login returns (ig.py 47-52)
LoginFinish ==
    /\ lpc = "loop"
    /\ ~login_retry_guard
    /\ \E t \in Tokens :
         /\ access_token' = t
         /\ headers' = [Authorization |-> t, VERSION |-> "1"]
    /\ lpc' = "done"
    /\ UNCHANGED <<debug_level, stdout, statuses, site, gpc, url, i, responses,
                   reqlog, last, result>>
    /\ UNCHANGED normalizerVars

(***************************************************************************)
(* _get                                                                    *)
(***************************************************************************)
\* a caller invokes _get(url) (ig.py 74-82); the constructor has logged in
GetCall ==
    /\ lpc = "done"
    /\ gpc = "idle"
    /\ stdout' = IF debug_level > 0 THEN Append(stdout, "request") ELSE stdout
    /\ url' = set_url(FirstEndpoint)
    /\ i' = 1
    /\ responses' = <<>>
    /\ reqlog' = <<>>
    /\ last' = NoResponse
    /\ result' = <<>>
    /\ gpc' = "loop"
    /\ UNCHANGED <<debug_level, lpc, statuses, access_token, headers, site>>
    /\ UNCHANGED normalizerVars

\* the prints of one iteration (ig.py 87-91)
page_prints(r) ==
    (IF debug_level > 0 THEN <<"page", "response">> ELSE <<>>)
    \o (IF debug_level > 1 THEN <<"text">> ELSE <<>>)

\* an early return that takes only server failures (5xx) for errors
get_error_guard_5xx(r) == r.status_code >= 500 /\ debug_level = 0

\* the guard of the early return (ig.py 93)
get_error_guard(r) == r.status_code # 200 /\ debug_level = 0

\* the message returned for a failed request (ig.py 94-95)
get_error_msg(r) == [error |-> r.text, code |-> r.status_code]

\* the next url after a parsed page (ig.py 103-107)
next_url(d) ==
    IF d.meta \in {"next", "null", "nopaging"}
    THEN IF d.meta = "next" /\ d.next # <<>> THEN set_url(d.next) ELSE None
    ELSE None

\* one iteration of `while url` (ig.py 85-107)
GetPage ==
    /\ gpc = "loop"
    /\ url # None
    /\ \E r \in Answers(site, url) :
         /\ last' = r
         /\ reqlog' = Append(reqlog, url)
         /\ IF get_error_guard(r)
            THEN /\ stdout' = Append(stdout \o page_prints(r), "msg")
                 /\ result' = <<get_error_msg(r)>>
                 /\ gpc' = "returned"
                 /\ UNCHANGED <<url, i, responses>>
            ELSE IF ~r.json \/ r.data.meta = "nopaging"
            THEN \* .json() raises, or .get('paging') is None and .get raises
                 /\ stdout' = stdout \o page_prints(r)
                 /\ gpc' = "raised"
                 /\ responses' = IF r.json THEN Append(responses, r.data) ELSE responses
                 /\ i' = IF r.json THEN i + 1 ELSE i
                 /\ UNCHANGED <<url, result>>
            ELSE /\ stdout' = stdout \o page_prints(r)
                 /\ responses' = Append(responses, r.data)
                 /\ i' = i + 1
                 /\ url' = next_url(r.data)
                 /\ UNCHANGED <<gpc, result>>
    /\ UNCHANGED <<debug_level, lpc, statuses, access_token, headers, site>>
    /\ UNCHANGED normalizerVars

\* the loop is left: return responses (ig.py 109)
GetReturn ==
    /\ gpc = "loop"
    /\ url = None
    /\ result' = responses
    /\ gpc' = "returned"
    /\ UNCHANGED <<debug_level, stdout, lpc, statuses, access_token, headers, site,
                   url, i, responses, reqlog, last>>
    /\ UNCHANGED normalizerVars

TransportInit ==
    /\ debug_level \in Verbosities
    /\ stdout = <<>>
    /\ lpc = "start"
    /\ statuses = <<>>
    /\ access_token = "unset"
    /\ headers = NoHeaders
    /\ site \in Sites
    /\ gpc = "idle"
    /\ url = None
    /\ i = 0
    /\ responses = <<>>
    /\ reqlog = <<>>
    /\ last = NoResponse
    /\ result = <<>>
    /\ call = "none" /\ pages = <<>> /\ arg = "HOUR" /\ request = <<>>
    /\ out = [kind |-> "none"]

TransportNext == LoginPost \/ LoginRetry \/ LoginFinish \/ GetCall \/ GetPage \/ GetReturn

\* the session: the constructor logs in, then a caller issues a _get call
Spec == TransportInit /\ [][TransportNext]_vars

(***************************************************************************)
(* pandas tables.                                                          *)
(***************************************************************************)
MaxEntries == 2    \* most entries (frames, bars, records) in one response

EmptyTable == [cols |-> {}, rows |-> <<>>]          \* pd.DataFrame()
Table(t) == [kind |-> "table", table |-> t]
Raised(e) == [kind |-> "raised", error |-> e]
Value(v) == [kind |-> "value", value |-> v]

Restrict(f, S) == [k \in S \cap DOMAIN f |-> f[k]]
Merge(f, g) == [k \in DOMAIN f \cup DOMAIN g |-> IF k \in DOMAIN f THEN f[k] ELSE g[k]]
Range(q) == {q[k] : k \in DOMAIN q}

RECURSIVE Flatten(_)
Flatten(qs) == IF qs = <<>> THEN <<>> ELSE Head(qs) \o Flatten(Tail(qs))

\* Series.combine_first: the values of a, and those of b where a has none
combine_first(a, b) == Merge(a, b)

\* DataFrame.append / pd.concat of rows: the union of the columns, the rows
\* in order, a cell missing where a row has no such column
append(t, rows) ==
    [cols |-> t.cols \cup UNION {DOMAIN rows[k] : k \in DOMAIN rows},
     rows |-> t.rows \o rows]
concat(t, u) == [cols |-> t.cols \cup u.cols, rows |-> t.rows \o u.rows]

\* DataFrame.empty
empty(t) == t.rows = <<>> \/ t.cols = {}

\* DataFrame.dropna(axis=1): drop every column with a missing cell
dropna_columns(t) ==
    LET keep == {c \in t.cols : \A k \in DOMAIN t.rows : c \in DOMAIN t.rows[k]}
    IN  [cols |-> keep, rows |-> [k \in DOMAIN t.rows |-> Restrict(t.rows[k], keep)]]

\* the page _get returns alone after a failed request at verbosity 0
MsgPage == [error |-> "not found", code |-> 404]

\* every page has the key (page[key] raises KeyError otherwise)
HasKey(ps, key) == \A k \in DOMAIN ps : key \in DOMAIN ps[k]
\* the entries of all pages, in order
Entries(ps, key) == Flatten([k \in DOMAIN ps |-> ps[k][key]])

sign(x) == IF x > 0 THEN 1 ELSE IF x < 0 THEN -1 ELSE 0

(***************************************************************************)
(* positions                                                               *)
(***************************************************************************)
market_info == {"bid", "epic", "instrumentName", "offer"}
position_info == {"dealId", "direction", "level", "limitLevel", "size", "stopLevel"}

\* a frame can be reshaped (ig.py 188-191): both halves are there and the
\* merged record has every projected column
frame_ok(frame) ==
    /\ {"position", "market"} \subseteq DOMAIN frame
    /\ (market_info \cup position_info)
          \subseteq DOMAIN combine_first(frame["position"], frame["market"])

\* the row of one frame (ig.py 188-192): position fields first, market fields
\* fill the gaps, projected on the ten columns, size renamed contractSize
position_row(frame) ==
    LET s == combine_first(frame["position"], frame["market"])
        r == Restrict(s, market_info \cup position_info)
    IN  [c \in (DOMAIN r \ {"size"}) \cup {"contractSize"}
            |-> IF c = "contractSize" THEN r["size"] ELSE r[c]]

\* close_level (ig.py 200-201)
close_level(row) == IF row["direction"] = "BUY" THEN row["bid"] ELSE row["offer"]

\* a signed size that keeps the sign of a SELL
signed_size_unsigned(row) == row["contractSize"]

\* the signed contractSize (ig.py 197-199)
signed_size(row) ==
    IF row["direction"] = "BUY" THEN row["contractSize"] ELSE row["contractSize"] * (-1)

\* derived columns whose stop distance is measured from the stop level
derive_stop_reversed(row) ==
    LET cs == signed_size(row)
        cl == close_level(row)
    IN  Merge([contractSize |-> cs,
               close_level |-> cl,
               profit |-> (cl - row["level"]) * cs,
               stop_distance |-> (cl - row["stopLevel"]) * sign(cs),
               limit_distance |-> (row["limitLevel"] - cl) * sign(cs)], row)

\* the derived columns of one row (ig.py 197-208)
derive(row) ==
    LET cs == signed_size(row)
        cl == close_level(row)
    IN  Merge([contractSize |-> cs,
               close_level |-> cl,
               profit |-> (cl - row["level"]) * cs,
               stop_distance |-> (row["stopLevel"] - cl) * sign(cs),
               limit_distance |-> (row["limitLevel"] - cl) * sign(cs)], row)

derived_columns == {"close_level", "profit", "stop_distance", "limit_distance"}

\* positions() applied to the pages _get returned (ig.py 184-210)
positions_of(ps) ==
    IF ~HasKey(ps, "positions") THEN Raised("KeyError")
    ELSE LET frames == Entries(ps, "positions")
         IN  IF \E k \in DOMAIN frames : ~frame_ok(frames[k]) THEN Raised("KeyError")
             ELSE LET df_pos == append(EmptyTable,
                                       [k \in DOMAIN frames |-> position_row(frames[k])])
                  IN  IF ~empty(df_pos)
                      THEN Table([cols |-> df_pos.cols \cup derived_columns,
                                  rows |-> [k \in DOMAIN df_pos.rows |-> derive(df_pos.rows[k])]])
                      ELSE Table(df_pos)

(***************************************************************************)
(* orders                                                                  *)
(***************************************************************************)
\* both halves of a working order are there (ig.py 222-223)
order_ok(frame) == {"workingOrderData", "marketData"} \subseteq DOMAIN frame

order_row(frame) == combine_first(frame["workingOrderData"], frame["marketData"])

\* the columns order_dist reads (ig.py 229-231)
order_dist_columns == {"direction", "offer", "bid", "orderLevel"}

\* order_dist of one row: missing when a cell it is computed from is missing
\* (a missing direction compares unequal to 'BUY')
order_dist(row) ==
    LET side == IF "direction" \in DOMAIN row /\ row["direction"] = "BUY"
                THEN "offer" ELSE "bid"
    IN  IF {side, "orderLevel"} \subseteq DOMAIN row
        THEN Merge([order_dist |-> row[side] - row["orderLevel"]], row)
        ELSE row

\* orders() applied to the pages _get returned (ig.py 217-233)
orders_of(ps) ==
    IF ~HasKey(ps, "workingOrders") THEN Raised("KeyError")
    ELSE LET frames == Entries(ps, "workingOrders")
         IN  IF \E k \in DOMAIN frames : ~order_ok(frames[k]) THEN Raised("KeyError")
             ELSE LET df_ord == append(EmptyTable,
                                       [k \in DOMAIN frames |-> order_row(frames[k])])
                  IN  IF ~empty(df_ord)
                      THEN IF ~(order_dist_columns \subseteq df_ord.cols)
                           THEN Raised("AttributeError")
                           ELSE Table([cols |-> df_ord.cols \cup {"order_dist"},
                                       rows |-> [k \in DOMAIN df_ord.rows |->
                                                    order_dist(df_ord.rows[k])]])
                      ELSE Table(df_ord)

(***************************************************************************)
(* prices.  Column labels of price tables are sequences of the parts of    *)
(* the name ("openPrice" is <<"open", "Price">>), so that the tests and    *)
(* replacements the code makes on the names are what they are in the code. *)
(* While prices() builds the table each row carries its index label ix.    *)
(***************************************************************************)
valid_resolutions == {"SECOND", "MINUTE", "MINUTE_2", "MINUTE_3", "MINUTE_5",
                      "MINUTE_10", "MINUTE_15", "MINUTE_30", "HOUR", "HOUR_2",
                      "HOUR_3", "HOUR_4", "DAY", "WEEK", "MONTH"}

\* a validation that passes the argument on unchanged
resolution_unchecked(resolution) == resolution

\* the resolution requested (ig.py 128-133)
resolution_used(resolution) ==
    IF resolution \notin valid_resolutions THEN "HOUR" ELSE resolution

\* whether the substitution is printed (ig.py 128-132)
warns(resolution) == resolution \notin valid_resolutions /\ debug_level # 0

\* what prices() prints before it reshapes the pages (ig.py 128-148)
prices_prints(resolution) ==
    (IF warns(resolution) THEN <<"warning">> ELSE <<>>) \o <<"url">>
    \o (IF debug_level # 0 THEN <<"pages">> ELSE <<>>)

\* the path of the request (ig.py 140-141)
prices_request(epic, resolution) == <<"/prices", epic, resolution_used(resolution)>>

SnapshotTime == <<"snapshotTime">>
LastTradedVolume == <<"lastTradedVolume">>
OpenPrice == <<"open", "Price">>
ClosePrice == <<"close", "Price">>
\* the order of the keys in a bar of the API, which is the order of the columns
ColumnOrder == <<SnapshotTime, OpenPrice, ClosePrice, LastTradedVolume>>

has_Price(column) == "Price" \in Range(column)
replace_Price(column) == SelectSeq(column, LAMBDA x : x # "Price")

\* the index labels and rows of the appended pages (ig.py 155-157): append
\* keeps each page's own labels 0 .. n-1
RECURSIVE appended(_)
appended(ps) ==
    IF ps = <<>> THEN <<>>
    ELSE LET bars == Head(ps)["prices"]
         IN  [k \in DOMAIN bars |-> [ix |-> k - 1, row |-> bars[k]]] \o appended(Tail(ps))

\* prices[column].apply(pd.Series) with the columns renamed (ig.py 164-166)
new_columns(frame, column) ==
    [k \in DOMAIN frame |->
        [ix |-> frame[k].ix,
         row |-> LET cell == frame[k].row[column]
                 IN  [c \in {replace_Price(column) \o <<"_", sub>> : sub \in DOMAIN cell}
                        |-> cell[c[Len(c)]]]]]

\* prices.join(new).drop(columns=column) (ig.py 167): a left join on the
\* index labels, every left row with every right row of the same label
join_drop(frame, new, column) ==
    Flatten([k \in DOMAIN frame |->
        LET matches == SelectSeq(new, LAMBDA e : e.ix = frame[k].ix)
            left == Restrict(frame[k].row, DOMAIN frame[k].row \ {column})
        IN  [j \in DOMAIN matches |-> [ix |-> frame[k].ix, row |-> Merge(left, matches[j].row)]]])

RECURSIVE expand(_, _)
expand(frame, price_columns) ==
    IF price_columns = <<>> THEN frame
    ELSE expand(join_drop(frame, new_columns(frame, Head(price_columns)), Head(price_columns)),
                Tail(price_columns))

rename_column(c) ==
    IF c = SnapshotTime THEN <<"time">>
    ELSE IF c = LastTradedVolume THEN <<"volume">> ELSE c

rename(row) ==
    [c \in {rename_column(d) : d \in DOMAIN row} |->
        row[CHOOSE d \in DOMAIN row : rename_column(d) = c]]

\* pd.to_datetime of a textual time
to_datetime(v) == [ts |-> v.str]

\* the reshaping of the pages (ig.py 151-174)
prices_of(ps) ==
    IF "code" \in DOMAIN ps[1] THEN Value(ps[1])
    ELSE IF ~HasKey(ps, "prices") THEN Raised("KeyError")
    ELSE LET frame == appended(ps)
             cols == UNION {DOMAIN frame[k].row : k \in DOMAIN frame}
             price_columns == SelectSeq(ColumnOrder, LAMBDA c : c \in cols /\ has_Price(c))
             wide == expand(frame, price_columns)
             t == dropna_columns(append(EmptyTable, [k \in DOMAIN wide |-> rename(wide[k].row)]))
         IN  IF <<"time">> \notin t.cols THEN Raised("AttributeError")
             ELSE Table([cols |-> t.cols,
                         rows |-> [k \in DOMAIN t.rows |->
                                     Merge([c \in {<<"time">>} |-> to_datetime(t.rows[k][c])],
                                           t.rows[k])]])

(***************************************************************************)
(* activity and markets                                                    *)
(***************************************************************************)
\* pd.to_datetime of a textual date
to_date(v) == [date |-> v.str]

\* activity() applied to the pages _get returned (ig.py 250-255)
activity_of(ps) ==
    IF ~HasKey(ps, "activities") THEN Raised("KeyError")
    ELSE LET df == append(EmptyTable, Entries(ps, "activities"))
         IN  IF "date" \notin df.cols THEN Raised("AttributeError")
             ELSE Table([cols |-> df.cols,
                         rows |-> [k \in DOMAIN df.rows |->
                                     IF "date" \in DOMAIN df.rows[k]
                                     THEN Merge([date |-> to_date(df.rows[k]["date"])], df.rows[k])
                                     ELSE df.rows[k]]])

\* markets() applied to the pages _get returned (ig.py 264-267): the first
\* page's lists, one table per key, side by side, without the columns that
\* have a missing cell
markets_of(ps) ==
    LET page == ps[1]
        lists == {"nodes", "markets"} \cap DOMAIN page
        n == IF "nodes" \in lists THEN Len(page["nodes"]) ELSE Len(page["markets"])
        part(key, k) == IF key \in lists THEN page[key][k] ELSE <<>>
    IN  IF lists = {} THEN Raised("ValueError")
        ELSE IF \E key \in lists : Len(page[key]) # n THEN Raised("ValueError")
        ELSE Table(dropna_columns(append(EmptyTable,
                [k \in 1 .. n |-> Merge(part("nodes", k), part("markets", k))])))

(***************************************************************************)
(* backtest_trade (analysis.py).  A time is a day number, day 0 a Monday.  *)
(***************************************************************************)
DefaultStop == 20
DefaultLimit == 40
MaxRows == 2       \* most rows of the table given to backtest_trade

day == [buy |-> 0, sell |-> 4]
weekday(t) == t % 7
abs(x) == IF x < 0 THEN -x ELSE x

\* a classification that looks at the limit first
backtest_limit_first(row, direction, stop, limit) ==
    IF abs(row[<<direction, "_limit">>]) > limit THEN limit
    ELSE IF abs(row[<<direction, "_stop">>]) > stop THEN -stop
    ELSE row[<<direction, "_profit">>]

\* the outcome of one row (analysis.py 34-40)
backtest(row, direction, stop, limit) ==
    IF abs(row[<<direction, "_stop">>]) > stop THEN -stop
    ELSE IF abs(row[<<direction, "_limit">>]) > limit THEN limit
    ELSE row[<<direction, "_profit">>]

\* the rows that enter the summary (analysis.py 43)
on_day(row, direction) == weekday(row[<<"time">>]) = day[direction]

RECURSIVE Sum(_)
Sum(q) == IF q = <<>> THEN 0 ELSE Head(q) + Sum(Tail(q))

\* df_prices with the column of outcomes (analysis.py 42)
with_trade(df, direction, stop, limit) ==
    [cols |-> df.cols \cup {<<"trade">>},
     rows |-> [k \in DOMAIN df.rows |->
                 Merge([c \in {<<"trade">>} |-> backtest(df.rows[k], direction, stop, limit)],
                       df.rows[k])]]

\* the series that is summarised (analysis.py 43) and its count and sum; the
\* mean, median and std printed with them are aggregates of the same series
summary(df, direction) ==
    LET sel == SelectSeq(df.rows, LAMBDA row : on_day(row, direction))
        res == [k \in DOMAIN sel |-> sel[k][<<"trade">>]]
    IN  [kind |-> "summary", res |-> res, count |-> Len(res), sum |-> Sum(res)]

(***************************************************************************)
(* The responses the normalizers are applied to.                           *)
(***************************************************************************)
Without(f, key) == Restrict(f, DOMAIN f \ {key})

PositionHalf(d, sz, lv) ==
    [dealId |-> "DI1", direction |-> d, level |-> lv, limitLevel |-> 120,
     size |-> sz, stopLevel |-> 90, currency |-> "GBP"]
MarketHalf == [bid |-> 101, epic |-> "E1", instrumentName |-> "FTSE", offer |-> 102,
               expiry |-> "DFB"]
WellFormedPositions ==
    {[position |-> PositionHalf(d, sz, lv), market |-> MarketHalf] :
        d \in {"BUY", "SELL"}, sz \in {2, 3}, lv \in {100, 104}}
MalformedPositions ==
    {[position |-> PositionHalf("BUY", 2, 100)],
     [market |-> MarketHalf],
     [position |-> Without(PositionHalf("SELL", 2, 100), "stopLevel"), market |-> MarketHalf],
     [position |-> PositionHalf("BUY", 2, 100), market |-> Without(MarketHalf, "bid")]}

OrderHalf(d, lv) == [dealId |-> "DI2", direction |-> d, orderLevel |-> lv, orderSize |-> 1]
MarketDataHalf == [bid |-> 101, offer |-> 102, instrumentName |-> "FTSE"]
WellFormedOrders ==
    {[workingOrderData |-> OrderHalf(d, lv), marketData |-> MarketDataHalf] :
        d \in {"BUY", "SELL"}, lv \in {95, 105}}
MalformedOrders ==
    {[workingOrderData |-> OrderHalf("BUY", 95)],
     [marketData |-> MarketDataHalf],
     [workingOrderData |-> Without(OrderHalf("BUY", 95), "orderLevel"),
      marketData |-> MarketDataHalf],
     [workingOrderData |-> Without(OrderHalf("SELL", 95), "orderSize"),
      marketData |-> MarketDataHalf],
     [workingOrderData |-> OrderHalf("SELL", 105), marketData |-> Without(MarketDataHalf, "bid")]}

\* a bar: its time, its volume (null in some), and two price axes, the
\* second with a lastTraded that is null in some bars
Bar(v, vol, lt) ==
    LET close == [bid |-> 20 + v, lastTraded |-> 7]
        full == [c \in {SnapshotTime, OpenPrice, ClosePrice, LastTradedVolume} |->
                    IF c = SnapshotTime THEN [str |-> v]
                    ELSE IF c = OpenPrice THEN [bid |-> 10 + v, ask |-> 12 + v]
                    ELSE IF c = ClosePrice
                         THEN IF lt THEN close ELSE Without(close, "lastTraded")
                    ELSE 5]
    IN  IF vol THEN full ELSE Without(full, LastTradedVolume)
Bars == {Bar(v, vol, lt) : v \in {1, 2}, vol \in BOOLEAN, lt \in BOOLEAN}

Activities ==
    {[date |-> [str |-> 1], epic |-> "E1"], [date |-> [str |-> 2], epic |-> "E2"],
     [epic |-> "E1"], [date |-> [str |-> 2], epic |-> "E1", dealId |-> "DI1"]}

Nodes == {[id |-> 1, name |-> "Indices"], [id |-> 2, name |-> "Forex"], [id |-> 3]}
Markets == {[epic |-> "E1", bid |-> 101], [epic |-> "E2"]}

Lists(F, n) == [1 .. n -> F]
PageOf(key, entries) == [k \in {key} |-> entries]

\* the responses of one or two pages with at most MaxEntries entries in all
PageLists(key, F) ==
    UNION {{<<PageOf(key, a)>> : a \in Lists(F, n)} : n \in 0 .. MaxEntries}
    \cup UNION {UNION {{<<PageOf(key, a), PageOf(key, b)>> :
                           a \in Lists(F, n), b \in Lists(F, m)} :
                       m \in 0 .. MaxEntries - n} : n \in 0 .. MaxEntries}

MarketPages ==
    UNION {{<<[nodes |-> a]>> : a \in Lists(Nodes, n)}
           \cup {<<[markets |-> a]>> : a \in Lists(Markets, n)}
           \cup {<<[nodes |-> a, markets |-> b]>> :
                    a \in Lists(Nodes, n), b \in Lists(Markets, n)} : n \in 0 .. MaxEntries}

Calls == {"positions", "orders", "prices", "activity", "markets"}

\* what _get can have returned to the call: pages of the endpoint, or at
\* verbosity 0 the message of a failed request alone
Inputs(c, v) ==
    (IF v = 0 THEN {<<MsgPage>>} ELSE {})
    \cup (IF c = "positions" THEN PageLists("positions", WellFormedPositions \cup MalformedPositions)
          ELSE IF c = "orders" THEN PageLists("workingOrders", WellFormedOrders \cup MalformedOrders)
          ELSE IF c = "prices" THEN PageLists("prices", Bars)
          ELSE IF c = "activity" THEN PageLists("activities", Activities)
          ELSE MarketPages)

Resolutions == {"HOUR", "DAY", "BOGUS"}
Epic == "E1"

Idle == [kind |-> "none"]

\* a session after login, no _get under way
LoggedIn ==
    /\ lpc = "done"
    /\ statuses = <<200>>
    /\ access_token = "tokA"
    /\ headers = [Authorization |-> "tokA", VERSION |-> "1"]
    /\ site = <<Page(1, "none", None)>>
    /\ gpc = "idle"
    /\ url = None
    /\ i = 0
    /\ responses = <<>>
    /\ reqlog = <<>>
    /\ last = NoResponse
    /\ result = <<>>

NormalizeInit ==
    /\ LoggedIn
    /\ stdout = <<>>
    /\ call \in Calls
    /\ debug_level \in (IF call = "prices" THEN Verbosities ELSE {0})
    /\ arg \in (IF call = "prices" THEN Resolutions ELSE {"HOUR"})
    /\ pages \in Inputs(call, debug_level)
    /\ request = <<>>
    /\ out = Idle

\* positions() (ig.py 176-210); pages is what its _get call returned
Positions ==
    /\ call = "positions" /\ out = Idle
    /\ out' = positions_of(pages)
    /\ UNCHANGED <<debug_level, stdout, call, pages, arg, request>>
    /\ UNCHANGED transportVars

\* orders() (ig.py 212-233)
Orders ==
    /\ call = "orders" /\ out = Idle
    /\ out' = orders_of(pages)
    /\ UNCHANGED <<debug_level, stdout, call, pages, arg, request>>
    /\ UNCHANGED transportVars

\* prices() (ig.py 122-174)
Prices ==
    /\ call = "prices" /\ out = Idle
    /\ request' = prices_request(Epic, arg)
    /\ stdout' = stdout \o prices_prints(arg)
    /\ out' = prices_of(pages)
    /\ UNCHANGED <<debug_level, call, pages, arg>>
    /\ UNCHANGED transportVars

\* activity() (ig.py 235-255)
Activity ==
    /\ call = "activity" /\ out = Idle
    /\ out' = activity_of(pages)
    /\ UNCHANGED <<debug_level, stdout, call, pages, arg, request>>
    /\ UNCHANGED transportVars

\* markets() (ig.py 257-267)
MarketNavigation ==
    /\ call = "markets" /\ out = Idle
    /\ out' = markets_of(pages)
    /\ UNCHANGED <<debug_level, stdout, call, pages, arg, request>>
    /\ UNCHANGED transportVars

NormalizeNext == Positions \/ Orders \/ Prices \/ Activity \/ MarketNavigation

\* one call of a normalizer on a response
SpecNormalize == NormalizeInit /\ [][NormalizeNext]_vars

\* the tables backtest_trade is applied to
PriceRow(t, bs, bl, bp, ss, sl) ==
    [c \in {<<"time">>, <<"buy", "_stop">>, <<"buy", "_limit">>, <<"buy", "_profit">>,
            <<"sell", "_stop">>, <<"sell", "_limit">>, <<"sell", "_profit">>} |->
        IF c = <<"time">> THEN t
        ELSE IF c = <<"buy", "_stop">> THEN bs
        ELSE IF c = <<"buy", "_limit">> THEN bl
        ELSE IF c = <<"buy", "_profit">> THEN bp
        ELSE IF c = <<"sell", "_stop">> THEN ss
        ELSE IF c = <<"sell", "_limit">> THEN sl
        ELSE 0 - 7]
PriceRows ==
    {PriceRow(t, bs, bl, 5, x[1], x[2]) :
        t \in {0, 4, 9}, bs \in {0 - 25, 20}, bl \in {0 - 45, 40},
        x \in {<<25, 45>>, <<10, 0 - 41>>}}
PriceTables ==
    UNION {{append(EmptyTable, q) : q \in Lists(PriceRows, n)} : n \in 0 .. MaxRows}

BacktestInit ==
    /\ LoggedIn
    /\ debug_level = 0
    /\ stdout = <<>>
    /\ call = "backtest_trade"
    /\ arg \in {"buy", "sell"}
    /\ pages \in PriceTables
    /\ request = <<>>
    /\ out = Idle

\* backtest_trade(df_prices, direction) with the default stop and limit
\* (analysis.py 29-45)
BacktestTrade ==
    /\ call = "backtest_trade" /\ out = Idle
    /\ pages' = with_trade(pages, arg, DefaultStop, DefaultLimit)
    /\ out' = summary(pages', arg)
    /\ stdout' = stdout \o <<"summary">>
    /\ UNCHANGED <<debug_level, call, arg, request>>
    /\ UNCHANGED transportVars

SpecBacktest == BacktestInit /\ [][BacktestTrade]_vars

(***************************************************************************)
(* Claims about the transport.                                             *)
(***************************************************************************)
\* the call of _get has ended and every request was answered by the
\* pagination sequence's server (no injected failure)
GetEnded == gpc \in {"returned", "raised"}
Served == last.status_code # 500

\* C1: for every valid pagination sequence of length N that the server holds,
\* _get issues exactly N requests, request k addressed to page k (request k+1
\* to the cursor returned by page k), and returns exactly the N pages in order.
C1_PaginationFollowed ==
    (GetEnded /\ ValidSite(site) /\ Served) =>
        /\ gpc = "returned"
        /\ Len(reqlog) = Len(site)
        /\ \A k \in 1 .. Len(site) : reqlog[k] = Addr(site, k)
        /\ result = site

\* the part of C1 that the code keeps: when no cursor of the sequence holds a
\* character that quote() encodes, the N pages are fetched and returned
PlainSite(s) == \A k \in 1 .. Len(s) - 1 : quote(s[k].next) = s[k].next
C1_PlainCursorsFollowed ==
    (GetEnded /\ ValidSite(site) /\ PlainSite(site) /\ Served) =>
        /\ gpc = "returned"
        /\ Len(reqlog) = Len(site)
        /\ \A k \in 1 .. Len(site) : reqlog[k] = Addr(site, k)
        /\ result = site

\* C2: login re-POSTs after every non-200 response and has no other exit: it
\* returns exactly on the first 200 response, and the access token and the
\* headers are set only then.
C2_LoginState ==
    /\ lpc = "done" =>
         /\ statuses[Len(statuses)] = 200
         /\ \A j \in 1 .. Len(statuses) - 1 : statuses[j] # 200
         /\ access_token \in Tokens
         /\ headers # NoHeaders
    /\ lpc # "done" =>
         /\ \A j \in 1 .. Len(statuses) - 1 : statuses[j] # 200
         /\ access_token = "unset"
         /\ headers = NoHeaders

C2_LoginStep ==
    /\ (lpc = "loop" /\ statuses[Len(statuses)] # 200) =>
         (lpc' = "loop" /\ Len(statuses') = Len(statuses) + 1 /\ access_token' = "unset")
    /\ (lpc = "loop" /\ statuses[Len(statuses)] = 200) =>
         (lpc' = "done" /\ statuses' = statuses)

C2_LoginRetriesUntil200 == [] C2_LoginState /\ [][C2_LoginStep]_vars

\* login has returned after the server refused MaxAttempts times
C2_Witness == lpc = "done" /\ Len(statuses) = MaxAttempts + 1

\* C3: at verbosity 0 a non-200 response to any page request ends _get: no
\* further request is issued and the call returns, as a value, a message
\* with the status code and the body of that response.
FailedAtZero == debug_level = 0 /\ last.status_code \notin {0, 200}

C3_ErrorState ==
    FailedAtZero =>
        /\ gpc = "returned"
        /\ result = <<[error |-> last.text, code |-> last.status_code]>>
        /\ Len(reqlog) = Len(responses) + 1

C3_ErrorStep == FailedAtZero => (reqlog' = reqlog /\ result' = result /\ gpc' = gpc)

C3_ErrorEndsGet == [] C3_ErrorState /\ [][C3_ErrorStep]_vars

\* a later page of a pagination sequence fails, and so does a first page
C3_Witness ==
    /\ FailedAtZero /\ gpc = "returned" /\ Len(reqlog) = 2 /\ last.status_code = 500

(***************************************************************************)
(* Claims about the normalizers.                                           *)
(***************************************************************************)
Done == out # Idle
IsTable == out.kind = "table"

\* C4: for every non-empty set of well-formed position entries, each row of
\* positions() has contractSize = size if BUY else -size, close_level = bid
\* if BUY else offer, profit = (close_level - level) * contractSize,
\* stop_distance = (stopLevel - close_level) * sign(contractSize) and
\* limit_distance = (limitLevel - close_level) * sign(contractSize); a SELL
\* with level 100, bid 101, offer 102, stopLevel 90, limitLevel 120, size 2
\* gives -2, 102, -4, 12, -18.
WellFormedPositionPages ==
    /\ call = "positions"
    /\ HasKey(pages, "positions")
    /\ Entries(pages, "positions") # <<>>
    /\ Range(Entries(pages, "positions")) \subseteq WellFormedPositions

SellExample == [position |-> PositionHalf("SELL", 2, 100), market |-> MarketHalf]
BuyExample == [position |-> PositionHalf("BUY", 2, 100), market |-> MarketHalf]

C4_PositionRows ==
    (WellFormedPositionPages /\ Done) =>
        /\ IsTable
        /\ Len(out.table.rows) = Len(Entries(pages, "positions"))
        /\ \A k \in DOMAIN out.table.rows :
             LET row == out.table.rows[k]
                 p == Entries(pages, "positions")[k]["position"]
                 m == Entries(pages, "positions")[k]["market"]
                 buy == p["direction"] = "BUY"
             IN  /\ row["contractSize"] = (IF buy THEN p["size"] ELSE 0 - p["size"])
                 /\ row["close_level"] = (IF buy THEN m["bid"] ELSE m["offer"])
                 /\ row["profit"] = (row["close_level"] - p["level"]) * row["contractSize"]
                 /\ row["stop_distance"] =
                        (p["stopLevel"] - row["close_level"]) * sign(row["contractSize"])
                 /\ row["limit_distance"] =
                        (p["limitLevel"] - row["close_level"]) * sign(row["contractSize"])
                 /\ (Entries(pages, "positions")[k] = SellExample =>
                        /\ row["contractSize"] = 0 - 2 /\ row["close_level"] = 102
                        /\ row["profit"] = 0 - 4 /\ row["stop_distance"] = 12
                        /\ row["limit_distance"] = 0 - 18)

\* positions() has returned the table of a page with the SELL entry
C4_Witness ==
    /\ call = "positions" /\ pages = <<[positions |-> <<SellExample, BuyExample>>]>>
    /\ IsTable /\ out.table.rows[1]["profit"] = 0 - 4

\* C5: a positions page with the one entry BUY, level 100, bid 101, offer
\* 102, stopLevel 90, limitLevel 120, size 2 gives a single row with
\* contractSize 2, close_level 101, profit 2, limit_distance 19 and (as
\* stated) stop_distance 11.
BuyExamplePage == call = "positions" /\ pages = <<[positions |-> <<BuyExample>>]>> /\ Done

BuyExampleRow(stop_distance) ==
    /\ IsTable
    /\ Len(out.table.rows) = 1
    /\ out.table.rows[1]["contractSize"] = 2
    /\ out.table.rows[1]["close_level"] = 101
    /\ out.table.rows[1]["profit"] = 2
    /\ out.table.rows[1]["stop_distance"] = stop_distance
    /\ out.table.rows[1]["limit_distance"] = 19

C5_BuyExampleAsStated == BuyExamplePage => BuyExampleRow(11)

\* C5 as amended: the stop distance of that row is -11, (90 - 101) * 1.
C5_BuyExample == BuyExamplePage => BuyExampleRow(0 - 11)

C5_Witness == BuyExamplePage /\ IsTable

\* C6: when the transport yields no data (pages whose entry lists are all
\* empty), every normalizer returns an empty table and never ends in an
\* error; the empty positions table has no profit or distance columns.
EntryKey(c) ==
    IF c = "positions" THEN "positions"
    ELSE IF c = "orders" THEN "workingOrders"
    ELSE IF c = "prices" THEN "prices" ELSE "activities"

NoData ==
    IF call = "markets"
    THEN "code" \notin DOMAIN pages[1]
         /\ \A key \in DOMAIN pages[1] : pages[1][key] = <<>>
    ELSE HasKey(pages, EntryKey(call)) /\ Entries(pages, EntryKey(call)) = <<>>

C6_EmptyGivesEmptyTable ==
    (call \in Calls /\ NoData /\ Done) =>
        /\ IsTable
        /\ out.table.rows = <<>>
        /\ (call = "positions" => out.table.cols \cap derived_columns = {})

\* what holds of C6: positions, orders and markets return an empty table
C6_EmptyPositionsOrdersMarkets ==
    (call \in {"positions", "orders", "markets"} /\ NoData /\ Done) =>
        /\ IsTable
        /\ out.table.rows = <<>>
        /\ out.table.cols \cap derived_columns = {}

\* C7: for a resolution outside the enumeration prices() requests HOUR, does
\* not raise because of the value, and (as stated) prints a warning at every
\* verbosity.
InvalidResolution == call = "prices" /\ Done /\ arg \notin valid_resolutions

normalize(c, ps) ==
    IF c = "positions" THEN positions_of(ps)
    ELSE IF c = "orders" THEN orders_of(ps) ELSE prices_of(ps)

TwoPages(cs) ==
    /\ call \in cs /\ Len(pages) = 2 /\ Done
    /\ normalize(call, <<pages[1]>>).kind = "table"
    /\ normalize(call, <<pages[2]>>).kind = "table"

Concatenation ==
    concat(normalize(call, <<pages[1]>>).table, normalize(call, <<pages[2]>>).table)

C8_PageMergingAssociative ==
    TwoPages({"positions", "orders", "prices"}) => (IsTable /\ out.table = Concatenation)

\* what holds of C8: positions and orders
C8_PositionsOrdersAssociative ==
    TwoPages({"positions", "orders"}) => (IsTable /\ out.table = Concatenation)

\* C9: every row of positions() and orders() merges the two halves of one
\* entry; an entry that lacks a half, or an expected key inside a half,
\* makes the normalization fail and never gives a row with missing fields.
ExpectedKeys(half) ==
    IF half = "position" THEN position_info
    ELSE IF half = "market" THEN market_info
    ELSE IF half = "workingOrderData" THEN {"direction", "orderLevel", "orderSize"}
    ELSE {"bid", "offer", "instrumentName"}

Halves == IF call = "positions" THEN {"position", "market"}
          ELSE {"workingOrderData", "marketData"}

Malformed(frame) ==
    \E half \in Halves : half \notin DOMAIN frame \/ ~(ExpectedKeys(half) \subseteq DOMAIN frame[half])

HasMalformedEntry ==
    /\ call \in {"positions", "orders"}
    /\ HasKey(pages, EntryKey(call))
    /\ \E k \in DOMAIN Entries(pages, EntryKey(call)) : Malformed(Entries(pages, EntryKey(call))[k])

C9_MalformedEntryRejected ==
    /\ (HasMalformedEntry /\ Done) => out.kind = "raised"
    /\ (call \in {"positions", "orders"} /\ Done /\ IsTable) =>
          \A k \in DOMAIN out.table.rows :
              UNION {ExpectedKeys(h) : h \in Halves} \ {"size"} \subseteq DOMAIN out.table.rows[k]

\* what holds of C9: positions() rejects every malformed entry
C9_PositionsRejectMalformed ==
    (call = "positions" /\ HasMalformedEntry /\ Done) => out.kind = "raised"

(***************************************************************************)
(* Claims about backtest_trade.                                            *)
(***************************************************************************)
\* C10: backtest_trade gives every row -stop when |<direction>_stop| > stop
\* (also when the limit condition holds), otherwise +limit when
\* |<direction>_limit| > limit, otherwise the recorded <direction>_profit; and
\* only the rows of the direction's weekday (buy: Monday, sell: Friday) enter
\* the summary.
StopHit(row) == abs(row[<<arg, "_stop">>]) > DefaultStop
LimitHit(row) == abs(row[<<arg, "_limit">>]) > DefaultLimit
Designated(row) ==
    (arg = "buy" /\ row[<<"time">>] % 7 = 0) \/ (arg = "sell" /\ row[<<"time">>] % 7 = 4)

C10_BacktestPrecedence ==
    (call = "backtest_trade" /\ Done) =>
        /\ \A k \in DOMAIN pages.rows :
             LET row == pages.rows[k]
             IN  /\ StopHit(row) => row[<<"trade">>] = 0 - DefaultStop
                 /\ (~StopHit(row) /\ LimitHit(row)) => row[<<"trade">>] = DefaultLimit
                 /\ (~StopHit(row) /\ ~LimitHit(row)) =>
                        row[<<"trade">>] = row[<<arg, "_profit">>]
        /\ LET sel == SelectSeq(pages.rows, Designated)
           IN  /\ out.res = [k \in DOMAIN sel |-> sel[k][<<"trade">>]]
               /\ out.count = Len(sel)
               /\ out.sum = Sum(out.res)

\* a row on the designated day with both conditions met, and one off the day
C10_Witness ==
    /\ call = "backtest_trade" /\ Done /\ Len(pages.rows) = 2
    /\ StopHit(pages.rows[1]) /\ LimitHit(pages.rows[1]) /\ Designated(pages.rows[1])
    /\ ~Designated(pages.rows[2])
    /\ out.count = 1 /\ out.sum = 0 - DefaultStop

====
